---- MODULE Spec2Model ----
(***************************************************************************)
(* A model of the cline crate (src/src/lib.rs): the command trie `Cli`     *)
(* with register / register_dyn_complete / complete / exec, and the raw    *)
(* terminal line session `unix_cline_run` with its key decoder `read_key`. *)
(*                                                                         *)
(* Strings are sequences of character codes (bytes of the ASCII range), a  *)
(* Vec<&str> is a sequence of such strings.  A `Cli` value is the record   *)
(* [commands, handler]: `commands` is a function from child keys to `Cli`  *)
(* values (the HashMap), `handler` is an Option, written <<>> for None and *)
(* <<h>> for Some(h).  A closure is known by the number of the register    *)
(* call that supplied it; what a closure does when called is recorded in   *)
(* the log of callback invocations.                                        *)
(***************************************************************************)
EXTENDS Integers, Sequences, FiniteSets, TLC

(* ------------------------------ bounds -------------------------------- *)

\* Most register / register_dyn_complete calls in one run.
MaxRegs == 2
\* Longest input line of arbitrary shape (any mix of letters and spaces)
\* handed to complete / exec.
MaxLineLen == 3
\* Most tokens of an input line made of tokens joined by single spaces.
MaxArgs == 3
\* Most bytes standard input holds when a terminal session starts.
MaxInput == 4

(* ----------------------------- alphabets ------------------------------ *)

\* The characters input lines are made of: 'a', 'b' and the space.
LineChars == {97, 98, 32}

\* The tokens command paths are registered with: "a" and "ab".
RegTokens == {<<97>>, <<97, 98>>}

\* The command paths handed to register: the empty one, the one-token paths
\* and the two-token paths below "a".
RegPaths == {<<>>} \cup {<<t>> : t \in RegTokens}
                   \cup {<<<<97>>, u>> : u \in RegTokens}

\* What a dynamic-complete closure may return when called: nothing, or "b"
\* followed by "ab".
CbResults == {<<>>, << <<98>>, <<97, 98>> >>}

\* The tokens the joined input lines are made of: "a" and "ab".
ArgTokens == {<<97>>, <<97, 98>>}

\* All strings over LineChars of length at most n.
RECURSIVE StringsUpTo(_)
StringsUpTo(n) ==
    IF n = 0 THEN {<<>>}
    ELSE LET shorter == StringsUpTo(n - 1)
         IN  shorter \cup {Append(s, c) : s \in {x \in shorter : Len(x) = n - 1},
                                            c \in LineChars}

\* All token sequences over ArgTokens of length at most n.
RECURSIVE TokenSeqsUpTo(_)
TokenSeqsUpTo(n) ==
    IF n = 0 THEN {<<>>}
    ELSE LET shorter == TokenSeqsUpTo(n - 1)
         IN  shorter \cup {Append(s, t) : s \in {x \in shorter : Len(x) = n - 1},
                                            t \in ArgTokens}

(* ------------------------------ strings ------------------------------- *)

\* char::is_whitespace on the ASCII range (the White_Space property).
IsWhitespace(c) == c \in {9, 10, 11, 12, 13, 32}

\* str::trim: the string without its leading and trailing whitespace.
RECURSIVE TrimStart(_)
TrimStart(s) ==
    IF s # <<>> /\ IsWhitespace(Head(s)) THEN TrimStart(Tail(s)) ELSE s

RECURSIVE TrimEnd(_)
TrimEnd(s) ==
    IF s # <<>> /\ IsWhitespace(s[Len(s)])
    THEN TrimEnd(SubSeq(s, 1, Len(s) - 1))
    ELSE s

Trim(s) == TrimEnd(TrimStart(s))

\* str::split_whitespace, collected: the maximal runs of non-whitespace
\* characters, in order.  `cur` is the run being read.
RECURSIVE SplitFrom(_, _)
SplitFrom(s, cur) ==
    IF s = <<>> THEN (IF cur = <<>> THEN <<>> ELSE <<cur>>)
    ELSE IF IsWhitespace(Head(s))
         THEN (IF cur = <<>> THEN <<>> ELSE <<cur>>) \o SplitFrom(Tail(s), <<>>)
         ELSE SplitFrom(Tail(s), Append(cur, Head(s)))

SplitWhitespace(s) == SplitFrom(s, <<>>)

\* A variant of StartsWith with receiver and pattern exchanged.
StartsWith_swapped(s, prefix) ==
    Len(s) <= Len(prefix) /\ SubSeq(prefix, 1, Len(s)) = s

\* str::starts_with.
StartsWith(s, prefix) ==
    Len(prefix) <= Len(s) /\ SubSeq(s, 1, Len(prefix)) = prefix

\* The tokens of a path joined by single spaces.
RECURSIVE Join(_)
Join(p) ==
    IF p = <<>> THEN <<>>
    ELSE IF Len(p) = 1 THEN p[1]
    ELSE p[1] \o <<32>> \o Join(Tail(p))

\* The input lines handed to complete and exec: every string of at most
\* MaxLineLen characters, and every line of at most MaxArgs tokens joined by
\* single spaces.
Lines == StringsUpTo(MaxLineLen) \cup {Join(p) : p \in TokenSeqsUpTo(MaxArgs)}

(* ------------------------------ the trie ------------------------------ *)

\* Result<(), ()>.
Ok == "Ok"
Err == "Err"

\* Cli::new(): no commands, no handler.
Cli_new == [commands |-> <<>>, handler |-> <<>>]

\* Command::new: the command of one register call.  `id` names the exec
\* closure (and the complete closure, when there is one).
Command_new(id, cmd, withComplete) ==
    [id |-> id, command |-> cmd, complete |-> withComplete]

\* HashMap::insert.
Insert(map, key, value) == (key :> value) @@ map

\* HashMap::keys in the order the map yields them: any order, each key once.
KeyOrders(S) ==
    {s \in [1..Cardinality(S) -> S] :
        \A i, j \in 1..Cardinality(S) : i # j => s[i] # s[j]}

VARIABLES
    cli,        \* the Cli the caller owns
    regs,       \* history: the register calls made so far, in order
    op,         \* the last API call: its input, its result, the callbacks it invoked
    pc,         \* where unix_cline_run is: "api" (not called), "start", "loop",
                \* "done" (returned) or "panicked" (unwound by a panic); for a
                \* read_key call on a reader of its own: "read", then
                \* "returned" or "panicked"
    term,       \* the terminal configuration in force: "orig" or "raw"
    command,    \* the line buffer `command` of unix_cline_run
    avail,      \* how many bytes standard input still holds
    key,        \* what the last read_key returned (an Option<Key>)
    out,        \* what the last step printed to the terminal, diagnostics left out
    diag,       \* the diagnostic lines the last step printed, by kind
    stream      \* the bytes left on the reader read_key is called on, when the
                \* decoder runs on a reader of its own; empty in a session,
                \* which draws the bytes of standard input at each read

apiVars == <<cli, regs, op>>
sessionVars == <<pc, term, command, avail, key, out, diag, stream>>
vars == <<cli, regs, op, pc, term, command, avail, key, out, diag, stream>>

(* ----------------------------- registration --------------------------- *)

\* A variant of _register that stores the command in every node along the
\* path, not only in the last one.
RECURSIVE _register_every_node(_, _, _)
_register_every_node(self, it, rc) ==
    IF it # <<>>
    THEN LET portion == Head(it)
             child == IF portion \notin DOMAIN self.commands
                      THEN Cli_new
                      ELSE self.commands[portion]
             r == _register_every_node(child, Tail(it), rc)
             cmd == [r.self EXCEPT !.handler = <<rc>>]
         IN  [res |-> Ok, self |-> [self EXCEPT !.commands = Insert(@, portion, cmd)]]
    ELSE [res |-> Err, self |-> self]

\* A variant of _register that keeps the handler a node already has.
RECURSIVE _register_first_wins(_, _, _)
_register_first_wins(self, it, rc) ==
    IF it # <<>>
    THEN LET portion == Head(it)
             child == IF portion \notin DOMAIN self.commands
                      THEN Cli_new
                      ELSE self.commands[portion]
             r == _register_first_wins(child, Tail(it), rc)
             cmd == IF r.res = Err /\ r.self.handler = <<>>
                    THEN [r.self EXCEPT !.handler = <<rc>>]
                    ELSE r.self
         IN  [res |-> Ok, self |-> [self EXCEPT !.commands = Insert(@, portion, cmd)]]
    ELSE [res |-> Err, self |-> self]

\* A variant of _register that puts a new node at every token of the path,
\* in place of the node that is there.
RECURSIVE _register_fresh_child(_, _, _)
_register_fresh_child(self, it, rc) ==
    IF it # <<>>
    THEN LET portion == Head(it)
             r == _register_fresh_child(Cli_new, Tail(it), rc)
             cmd == IF r.res = Err
                    THEN [r.self EXCEPT !.handler = <<rc>>]
                    ELSE r.self
         IN  [res |-> Ok, self |-> [self EXCEPT !.commands = Insert(@, portion, cmd)]]
    ELSE [res |-> Err, self |-> self]

\* Cli::_register: descend along the path, creating the missing nodes; the
\* node reached when the iterator is exhausted answers Err, and its parent
\* then stores the command in it.  Returns the result and the changed node.
RECURSIVE _register(_, _, _)
_register(self, it, rc) ==
    IF it # <<>>
    THEN LET portion == Head(it)
             child == IF portion \notin DOMAIN self.commands
                      THEN Cli_new
                      ELSE self.commands[portion]
             r == _register(child, Tail(it), rc)
             cmd == IF r.res = Err
                    THEN [r.self EXCEPT !.handler = <<rc>>]
                    ELSE r.self
         IN  [res |-> Ok, self |-> [self EXCEPT !.commands = Insert(@, portion, cmd)]]
    ELSE [res |-> Err, self |-> self]

\* A variant of register that answers Ok also after the empty path.
register_always_ok(self, cmd, rc) ==
    LET r == _register(self, cmd, rc)
    IN  IF r.res = Ok
        THEN [res |-> Ok, self |-> r.self]
        ELSE [res |-> Ok, self |-> [r.self EXCEPT !.handler = <<rc>>]]

\* A variant of register that only rejects the empty path.
register_reject_only(self, cmd, rc) ==
    LET r == _register(self, cmd, rc)
    IN  IF r.res = Ok
        THEN [res |-> Ok, self |-> r.self]
        ELSE [res |-> Err, self |-> r.self]

\* A variant of register that, after the empty path, starts a new Cli with
\* the command as its handler.
register_new_root(self, cmd, rc) ==
    LET r == _register(self, cmd, rc)
    IN  IF r.res = Ok
        THEN [res |-> Ok, self |-> r.self]
        ELSE [res |-> Err, self |-> [Cli_new EXCEPT !.handler = <<rc>>]]

\* Cli::register and Cli::register_dyn_complete: on Err (the empty path) the
\* command is stored as the handler of the Cli itself.
register(self, cmd, rc) ==
    LET r == _register(self, cmd, rc)
    IN  IF r.res = Ok
        THEN [res |-> Ok, self |-> r.self]
        ELSE [res |-> Err, self |-> [r.self EXCEPT !.handler = <<rc>>]]

(* ------------------------------ completion ---------------------------- *)

\* One closure invocation, as the log records it: which closure, with which
\* arguments, and what it returned (<<>> for an exec closure, which returns
\* nothing).
Call(id, kind, args, ret) == [cb |-> id, kind |-> kind, args |-> args, ret |-> ret]

\* The dynamic part of a completion at node `self`: when the node's handler
\* has a complete closure it is called once with `args` and returns any of
\* CbResults; otherwise nothing is called and nothing is contributed.
DynComplete(self, args) ==
    IF self.handler # <<>> /\ self.handler[1].complete
    THEN {[ret |-> r, calls |-> <<Call(self.handler[1].id, "complete", args, r)>>] :
            r \in CbResults}
    ELSE {[ret |-> <<>>, calls |-> <<>>]}

\* A variant of _complete that, with the tokens exhausted, returns the
\* closure's result alone when the node has a complete closure, and the child
\* keys only otherwise.
RECURSIVE _complete_closure_only(_, _)
_complete_closure_only(self, portions) ==
    IF portions # <<>>
    THEN LET portion == Head(portions)
         IN  IF portion \in DOMAIN self.commands
             THEN _complete_closure_only(self.commands[portion], Tail(portions))
             ELSE {[ret |-> d.ret \o k, calls |-> d.calls] :
                     d \in DynComplete(self, portions),
                     k \in KeyOrders({c \in DOMAIN self.commands :
                                        StartsWith(c, portion)})}
    ELSE {[ret |-> d.ret \o k, calls |-> d.calls] :
            d \in DynComplete(self, << <<>> >>),
            k \in IF self.handler # <<>> /\ self.handler[1].complete
                  THEN {<<>>}
                  ELSE KeyOrders(DOMAIN self.commands)}

\* A variant of _complete that, with the tokens exhausted at a node without
\* a complete closure, returns the one-element vector [""] (as the _complete
\* of src/src/main.rs does) instead of the child keys.
RECURSIVE _complete_sentinel_at_end(_, _)
_complete_sentinel_at_end(self, portions) ==
    IF portions # <<>>
    THEN LET portion == Head(portions)
         IN  IF portion \in DOMAIN self.commands
             THEN _complete_sentinel_at_end(self.commands[portion], Tail(portions))
             ELSE {[ret |-> d.ret \o k, calls |-> d.calls] :
                     d \in DynComplete(self, portions),
                     k \in KeyOrders({c \in DOMAIN self.commands :
                                        StartsWith(c, portion)})}
    ELSE IF self.handler # <<>> /\ self.handler[1].complete
         THEN {[ret |-> d.ret, calls |-> d.calls] : d \in DynComplete(self, << <<>> >>)}
         ELSE {[ret |-> << <<>> >>, calls |-> <<>>]}

\* Cli::_complete: the set of outcomes (the returned vector and the callbacks
\* invoked) the call can have; they differ in what the closure returns and
\* in the order the HashMap yields its keys.
RECURSIVE _complete(_, _)
_complete(self, portions) ==
    IF portions # <<>>
    THEN LET portion == Head(portions)
         IN  IF portion \in DOMAIN self.commands
             THEN _complete(self.commands[portion], Tail(portions))
             ELSE {[ret |-> d.ret \o k, calls |-> d.calls] :
                     d \in DynComplete(self, portions),
                     k \in KeyOrders({c \in DOMAIN self.commands :
                                        StartsWith(c, portion)})}
    ELSE {[ret |-> d.ret \o k, calls |-> d.calls] :
            d \in DynComplete(self, << <<>> >>),
            k \in KeyOrders(DOMAIN self.commands)}

\* A variant of complete that takes whitespace at the end of the line for
\* the start of a new, still empty token.
complete_after_space(self, argv) ==
    _complete(self, SplitWhitespace(argv)
                    \o (IF argv # <<>> /\ IsWhitespace(argv[Len(argv)])
                        THEN << <<>> >>
                        ELSE <<>>))

\* Cli::complete.
complete(self, argv) == _complete(self, SplitWhitespace(Trim(argv)))

(* ------------------------------ execution ----------------------------- *)

\* A variant of _exec that hands the closure the tokens left at the node
\* where the traversal stops, not the whole argv.
RECURSIVE _exec_suffix(_, _, _)
_exec_suffix(self, portions, argv) ==
    IF portions # <<>>
    THEN LET portion == Head(portions)
         IN  IF portion \in DOMAIN self.commands
             THEN _exec_suffix(self.commands[portion], Tail(portions), argv)
             ELSE IF self.handler # <<>>
                  THEN <<Call(self.handler[1].id, "exec", portions, <<>>)>>
                  ELSE <<>>
    ELSE IF self.handler # <<>>
         THEN <<Call(self.handler[1].id, "exec", portions, <<>>)>>
         ELSE <<>>

\* A variant of _exec that falls back to the handler of the nearest ancestor
\* when the node where the traversal stops has none.
RECURSIVE _exec_fallback(_, _, _)
_exec_fallback(self, portions, argv) ==
    LET own == IF self.handler # <<>>
               THEN <<Call(self.handler[1].id, "exec", argv, <<>>)>>
               ELSE <<>>
    IN  IF portions # <<>> /\ Head(portions) \in DOMAIN self.commands
        THEN LET below == _exec_fallback(self.commands[Head(portions)],
                                         Tail(portions), argv)
             IN  IF below # <<>> THEN below ELSE own
        ELSE own

\* A variant of _exec that looks no deeper than the child named by the first
\* token.
_exec_first_token(self, portions, argv) ==
    LET node == IF portions # <<>> /\ Head(portions) \in DOMAIN self.commands
                THEN self.commands[Head(portions)]
                ELSE self
    IN  IF node.handler # <<>>
        THEN <<Call(node.handler[1].id, "exec", argv, <<>>)>>
        ELSE <<>>

\* Cli::_exec: the callbacks invoked, in order.
RECURSIVE _exec(_, _, _)
_exec(self, portions, argv) ==
    IF portions # <<>>
    THEN LET portion == Head(portions)
         IN  IF portion \in DOMAIN self.commands
             THEN _exec(self.commands[portion], Tail(portions), argv)
             ELSE IF self.handler # <<>>
                  THEN <<Call(self.handler[1].id, "exec", argv, <<>>)>>
                  ELSE <<>>
    ELSE IF self.handler # <<>>
         THEN <<Call(self.handler[1].id, "exec", argv, <<>>)>>
         ELSE <<>>

\* Cli::exec.
exec(self, cmd) == _exec(self, SplitWhitespace(Trim(cmd)), SplitWhitespace(cmd))

(* ------------------------------ API calls ----------------------------- *)

\* The record of an API call.
Op(kind, path, line, res, ret, calls) ==
    [kind |-> kind, path |-> path, line |-> line, res |-> res, ret |-> ret,
     calls |-> calls]


\* No API call is in progress: the caller is between two calls.
Idle == Op("idle", <<>>, <<>>, Ok, <<>>, <<>>)

\* The session variables while unix_cline_run is not running.
NoSession ==
    /\ pc = "api"
    /\ term = "orig"
    /\ command = <<>>
    /\ avail = 0
    /\ key = <<>>
    /\ out = <<>>
    /\ diag = <<>>
    /\ stream = <<>>

Init ==
    /\ cli = Cli_new
    /\ regs = <<>>
    /\ op = Idle
    /\ NoSession

\* cli.register(cmd, exec) and cli.register_dyn_complete(cmd, exec, complete).
Register(cmd, withComplete) ==
    /\ pc = "api"
    /\ op = Idle
    /\ Len(regs) < MaxRegs
    /\ LET id == Len(regs) + 1
           r == register(cli, cmd, Command_new(id, cmd, withComplete))
           kind == IF withComplete THEN "register_dyn_complete" ELSE "register"
       IN  /\ cli' = r.self
           /\ regs' = Append(regs, [id |-> id, path |-> cmd, complete |-> withComplete,
                                    res |-> r.res])
           /\ op' = Op(kind, cmd, <<>>, r.res, <<>>, <<>>)
    /\ UNCHANGED sessionVars

\* cli.complete(argv).
Complete(argv) ==
    /\ pc = "api"
    /\ op = Idle
    /\ \E o \in complete(cli, argv) :
          op' = Op("complete", <<>>, argv, Ok, o.ret, o.calls)
    /\ UNCHANGED <<cli, regs>>
    /\ UNCHANGED sessionVars

\* A variant of Exec that takes the handler out of the root node.
Exec_take_handler(cmd) ==
    /\ pc = "api"
    /\ op = Idle
    /\ op' = Op("exec", <<>>, cmd, Ok, <<>>, exec(cli, cmd))
    /\ cli' = [cli EXCEPT !.handler = <<>>]
    /\ UNCHANGED regs
    /\ UNCHANGED sessionVars

\* cli.exec(cmd).
Exec(cmd) ==
    /\ pc = "api"
    /\ op = Idle
    /\ op' = Op("exec", <<>>, cmd, Ok, <<>>, exec(cli, cmd))
    /\ UNCHANGED <<cli, regs>>
    /\ UNCHANGED sessionVars

\* The caller has taken the result of the last call and goes on.
Return ==
    /\ pc = "api"
    /\ op # Idle
    /\ op' = Idle
    /\ UNCHANGED <<cli, regs>>
    /\ UNCHANGED sessionVars

Next ==
    \/ \E cmd \in RegPaths : Register(cmd, FALSE)
    \/ \E cmd \in RegPaths : Register(cmd, TRUE)
    \/ \E argv \in Lines : Complete(argv)
    \/ \E cmd \in Lines : Exec(cmd)
    \/ Return

Spec == Init /\ [][Next]_vars

(* ---------------------------- key decoder ---------------------------- *)

\* enum Key, with enum Direction for the arrows.  A key is the record of its
\* variant, the value it carries (the character of Char and Symbol, the
\* number of Digit, 0 otherwise) and the direction of an Arrow ("" otherwise).
Key(tag, v, dir) == [tag |-> tag, v |-> v, dir |-> dir]

\* What one call of read_key does: the Option<Key> returned, the number of
\* bytes taken from the stream, whether the call panicked instead of
\* returning, and the diagnostic lines printed.
Read(k, n, panic, d) == [key |-> k, n |-> n, panic |-> panic, diag |-> d]

\* read_key on a stream whose remaining bytes are `bytes` (the end of the
\* sequence is the end of the stream).
read_key(bytes) ==
    IF bytes = <<>> THEN Read(<<>>, 0, FALSE, <<>>)
    ELSE LET c == bytes[1]
         IN  IF c = 27
             THEN IF Len(bytes) < 2
                  THEN Read(<<>>, 1, TRUE, <<>>)
                  ELSE IF bytes[2] = 91
                       THEN IF Len(bytes) < 3
                            THEN Read(<<>>, 2, TRUE, <<>>)
                            ELSE CASE bytes[3] = 65 ->
                                        Read(<<Key("Arrow", 0, "Up")>>, 3, FALSE, <<>>)
                                   [] bytes[3] = 66 ->
                                        Read(<<Key("Arrow", 0, "Down")>>, 3, FALSE, <<>>)
                                   [] bytes[3] = 67 ->
                                        Read(<<Key("Arrow", 0, "Right")>>, 3, FALSE, <<>>)
                                   [] bytes[3] = 68 ->
                                        Read(<<Key("Arrow", 0, "Left")>>, 3, FALSE, <<>>)
                                   [] OTHER -> Read(<<>>, 3, FALSE, <<"escape">>)
                       ELSE Read(<<>>, 2, FALSE, <<"escape">>)
             ELSE IF c >= 48 /\ c <= 57
                  THEN Read(<<Key("Digit", c - 48, "")>>, 1, FALSE, <<>>)
             ELSE IF (c >= 65 /\ c <= 90) \/ (c >= 97 /\ c <= 122)
                  THEN Read(<<Key("Char", c, "")>>, 1, FALSE, <<>>)
             ELSE IF c = 32 THEN Read(<<Key("Whitespace", 0, "")>>, 1, FALSE, <<>>)
             ELSE IF c = 127 THEN Read(<<Key("Del", 0, "")>>, 1, FALSE, <<>>)
             ELSE IF c = 9 THEN Read(<<Key("Tab", 0, "")>>, 1, FALSE, <<>>)
             ELSE IF c = 8 THEN Read(<<Key("Backspace", 0, "")>>, 1, FALSE, <<>>)
             ELSE IF c = 10 THEN Read(<<Key("Newline", 0, "")>>, 1, FALSE, <<>>)
             ELSE IF c = 3 THEN Read(<<Key("Etx", 0, "")>>, 1, FALSE, <<>>)
             ELSE Read(<<Key("Symbol", c, "")>>, 1, FALSE, <<"byte">>)

(* -------------------------- terminal session --------------------------- *)

\* The bytes standard input delivers in a session: Etx, Backspace, Tab,
\* Newline, Esc, space, '-', '1', 'A', '[', 'a', 'b' and Del.
InputBytes == {3, 8, 9, 10, 27, 32, 45, 49, 65, 91, 97, 98, 127}

\* What read_key can find on standard input when it still holds n bytes: the
\* bytes one call looks at, the stream ending after them when they are fewer
\* than the call asks for.
KeyInputs(n) ==
    IF n = 0 THEN {<<>>}
    ELSE {<<b>> : b \in InputBytes \ {27}}
         \cup (IF n = 1 THEN {<<27>>}
               ELSE {<<27, b>> : b \in InputBytes \ {91}}
                    \cup (IF n = 2 THEN {<<27, 91>>}
                          ELSE {<<27, 91, b>> : b \in InputBytes}))

\* The prompt ">> ".
Prompt == <<62, 62, 32>>

\* The suggestions as the Tab arm prints them: each followed by a space.
RECURSIVE Suggestions(_)
Suggestions(ret) ==
    IF ret = <<>> THEN <<>> ELSE Head(ret) \o <<32>> \o Suggestions(Tail(ret))

\* String::pop: the string without its last character, if it has one.
Pop(str) == IF str = <<>> THEN str ELSE SubSeq(str, 1, Len(str) - 1)

\* The register calls a program makes before it calls cline_run: none; the
\* commands "a" and "a ab", the second with a complete closure; or a failed
\* registration of the empty path with a complete closure, then "ab".
SessionSetups ==
    { <<>>,
      << [path |-> << <<97>> >>, complete |-> FALSE],
         [path |-> << <<97>>, <<97, 98>> >>, complete |-> TRUE] >>,
      << [path |-> <<>>, complete |-> TRUE],
         [path |-> << <<97, 98>> >>, complete |-> FALSE] >> }

\* The Cli and the history after the register calls of `calls`.
RECURSIVE Setup(_)
Setup(calls) ==
    IF calls = <<>> THEN [cli |-> Cli_new, regs |-> <<>>]
    ELSE LET before == Setup(SubSeq(calls, 1, Len(calls) - 1))
             c == calls[Len(calls)]
             id == Len(calls)
             r == register(before.cli, c.path, Command_new(id, c.path, c.complete))
         IN  [cli |-> r.self,
              regs |-> Append(before.regs, [id |-> id, path |-> c.path,
                                            complete |-> c.complete, res |-> r.res])]

\* A program has registered its commands and is about to call cline_run;
\* standard input holds some bytes.
SessionInit ==
    /\ \E calls \in SessionSetups :
          /\ cli = Setup(calls).cli
          /\ regs = Setup(calls).regs
    /\ op = Idle
    /\ pc = "start"
    /\ term = "orig"
    /\ command = <<>>
    /\ avail \in 0..MaxInput
    /\ key = <<>>
    /\ out = <<>>
    /\ diag = <<>>
    /\ stream = <<>>

\* unix_cline_run up to its loop: the terminal configuration is saved and
\* switched to raw mode, pending input is flushed and the prompt is printed.
Start ==
    /\ pc = "start"
    /\ pc' = "loop"
    /\ term' = "raw"
    /\ out' = Prompt
    /\ UNCHANGED <<command, avail, key, diag, stream>>
    /\ UNCHANGED apiVars

\* What every loop iteration does with the result `r` of its read_key call.
Consumed(r) ==
    /\ avail' = avail - r.n
    /\ key' = r.key
    /\ diag' = r.diag
    /\ UNCHANGED stream

\* The loop iteration with no trie call.
NoTrieCall == op' = Idle /\ UNCHANGED <<cli, regs>>

\* read_key panics (the stream ends inside an escape sequence): the panic
\* unwinds unix_cline_run, whose last statement is not reached.
ReadPanic ==
    /\ pc = "loop"
    /\ \E bytes \in KeyInputs(avail) :
          LET r == read_key(bytes)
          IN  /\ r.panic
              /\ Consumed(r)
    /\ pc' = "panicked"
    /\ out' = <<>>
    /\ NoTrieCall
    /\ UNCHANGED <<term, command>>

\* A variant of ReadNone that goes round the loop again when read_key
\* returns None.
ReadNone_again ==
    /\ pc = "loop"
    /\ \E bytes \in KeyInputs(avail) :
          LET r == read_key(bytes)
          IN  /\ ~r.panic
              /\ r.key = <<>>
              /\ Consumed(r)
    /\ out' = <<>>
    /\ NoTrieCall
    /\ UNCHANGED <<pc, term, command>>

\* read_key returns None: the loop breaks and the saved terminal
\* configuration is set again.
ReadNone ==
    /\ pc = "loop"
    /\ \E bytes \in KeyInputs(avail) :
          LET r == read_key(bytes)
          IN  /\ ~r.panic
              /\ r.key = <<>>
              /\ Consumed(r)
    /\ pc' = "done"
    /\ term' = "orig"
    /\ out' = <<>>
    /\ NoTrieCall
    /\ UNCHANGED command

\* The read_key results that are a key of one of the variants `tags`.
KeysRead(tags) ==
    {r \in {read_key(bytes) : bytes \in KeyInputs(avail)} :
        ~r.panic /\ r.key # <<>> /\ r.key[1].tag \in tags}

\* A variant of OnChar that echoes the character and does not push it.
OnChar_echo_only ==
    /\ pc = "loop"
    /\ \E r \in KeysRead({"Char"}) :
          /\ Consumed(r)
          /\ out' = <<r.key[1].v>>
    /\ NoTrieCall
    /\ UNCHANGED <<pc, term, command>>

\* Key::Char(c): pushed and echoed.
OnChar ==
    /\ pc = "loop"
    /\ \E r \in KeysRead({"Char"}) :
          /\ Consumed(r)
          /\ command' = Append(command, r.key[1].v)
          /\ out' = <<r.key[1].v>>
    /\ NoTrieCall
    /\ UNCHANGED <<pc, term>>

\* Key::Whitespace: a space is pushed and echoed.
OnWhitespace ==
    /\ pc = "loop"
    /\ \E r \in KeysRead({"Whitespace"}) : Consumed(r)
    /\ command' = Append(command, 32)
    /\ out' = <<32>>
    /\ NoTrieCall
    /\ UNCHANGED <<pc, term>>

\* A variant of OnErase that empties the line buffer.
OnErase_clear_line ==
    /\ pc = "loop"
    /\ \E r \in KeysRead({"Del", "Backspace"}) : Consumed(r)
    /\ command' = <<>>
    /\ out' = <<8, 32, 8>>
    /\ NoTrieCall
    /\ UNCHANGED <<pc, term>>

\* Key::Del | Key::Backspace: the last character is popped and the erase
\* sequence is printed.
OnErase ==
    /\ pc = "loop"
    /\ \E r \in KeysRead({"Del", "Backspace"}) : Consumed(r)
    /\ command' = Pop(command)
    /\ out' = <<8, 32, 8>>
    /\ NoTrieCall
    /\ UNCHANGED <<pc, term>>

\* A variant of OnTab that puts the first suggestion into the line buffer.
OnTab_take_first ==
    /\ pc = "loop"
    /\ \E r \in KeysRead({"Tab"}) : Consumed(r)
    /\ \E o \in complete(cli, command) :
          /\ op' = Op("complete", <<>>, command, Ok, o.ret, o.calls)
          /\ command' = IF o.ret = <<>> THEN command ELSE o.ret[1]
          /\ out' = <<10>> \o Suggestions(o.ret) \o <<10>> \o Prompt \o command'
    /\ UNCHANGED <<cli, regs>>
    /\ UNCHANGED <<pc, term>>

\* Key::Tab: the suggestions of cli.complete(&command) are printed on a line
\* of their own, then the prompt and the line buffer.
OnTab ==
    /\ pc = "loop"
    /\ \E r \in KeysRead({"Tab"}) : Consumed(r)
    /\ \E o \in complete(cli, command) :
          /\ op' = Op("complete", <<>>, command, Ok, o.ret, o.calls)
          /\ out' = <<10>> \o Suggestions(o.ret) \o <<10>> \o Prompt \o command
    /\ UNCHANGED <<cli, regs>>
    /\ UNCHANGED <<pc, term, command>>

\* A variant of OnNewline that leaves the line buffer as it is.
OnNewline_keep_buffer ==
    /\ pc = "loop"
    /\ \E r \in KeysRead({"Newline"}) : Consumed(r)
    /\ op' = Op("exec", <<>>, command, Ok, <<>>, exec(cli, command))
    /\ out' = <<10>> \o Prompt
    /\ UNCHANGED <<cli, regs>>
    /\ UNCHANGED <<pc, term, command>>

\* Key::Newline: cli.exec(&command), the line buffer is cleared and the
\* prompt is printed.
OnNewline ==
    /\ pc = "loop"
    /\ \E r \in KeysRead({"Newline"}) : Consumed(r)
    /\ op' = Op("exec", <<>>, command, Ok, <<>>, exec(cli, command))
    /\ command' = <<>>
    /\ out' = <<10>> \o Prompt
    /\ UNCHANGED <<cli, regs>>
    /\ UNCHANGED <<pc, term>>

\* A variant of OnEtx that prints the newline and stays in the loop.
OnEtx_stay ==
    /\ pc = "loop"
    /\ \E r \in KeysRead({"Etx"}) : Consumed(r)
    /\ out' = <<10>>
    /\ NoTrieCall
    /\ UNCHANGED <<pc, term, command>>

\* Key::Etx: the loop breaks and the saved terminal configuration is set
\* again.
OnEtx ==
    /\ pc = "loop"
    /\ \E r \in KeysRead({"Etx"}) : Consumed(r)
    /\ pc' = "done"
    /\ term' = "orig"
    /\ out' = <<10>>
    /\ NoTrieCall
    /\ UNCHANGED command

\* Every other key (Symbol, Digit, Arrow): only the line "unhandled: .." is
\* printed.
OnOther ==
    /\ pc = "loop"
    /\ \E r \in KeysRead({"Symbol", "Digit", "Arrow"}) :
          /\ avail' = avail - r.n
          /\ key' = r.key
          /\ diag' = Append(r.diag, "unhandled")
          /\ UNCHANGED stream
    /\ out' = <<>>
    /\ NoTrieCall
    /\ UNCHANGED <<pc, term, command>>

\* The flush of the prompt fails (stdout().flush().unwrap() panics): raw mode
\* is already set and unix_cline_run unwinds.
StartPanic ==
    /\ pc = "start"
    /\ pc' = "panicked"
    /\ term' = "raw"
    /\ UNCHANGED <<command, avail, key, out, diag, stream>>
    /\ UNCHANGED apiVars

\* A callback panics: the exec closure cli.exec calls for a Newline key, or
\* the complete closure cli.complete calls for a Tab key.  The panic unwinds
\* unix_cline_run out of the call; the rest of the arm is not reached.
HandlerPanic ==
    /\ pc = "loop"
    /\ \E r \in KeysRead({"Newline", "Tab"}) :
          /\ Consumed(r)
          /\ IF r.key[1].tag = "Newline"
             THEN /\ exec(cli, command) # <<>>
                  /\ op' = Op("exec", <<>>, command, Ok, <<>>, exec(cli, command))
                  /\ out' = <<10>>
             ELSE /\ \E o \in complete(cli, command) :
                        /\ o.calls # <<>>
                        /\ op' = Op("complete", <<>>, command, Ok, <<>>, o.calls)
                  /\ out' = <<>>
    /\ pc' = "panicked"
    /\ UNCHANGED <<cli, regs>>
    /\ UNCHANGED <<term, command>>

\* The flush that ends the arm of a Char, Whitespace, Del, Backspace, Tab or
\* Newline key fails (stdout().flush().unwrap() panics): the arm has done its
\* work, nothing of it has reached the terminal and unix_cline_run unwinds.
FlushPanic ==
    /\ pc = "loop"
    /\ \E r \in KeysRead({"Char", "Whitespace", "Del", "Backspace", "Tab",
                          "Newline"}) :
          LET k == r.key[1]
          IN  /\ Consumed(r)
              /\ command' = CASE k.tag = "Char" -> Append(command, k.v)
                              [] k.tag = "Whitespace" -> Append(command, 32)
                              [] k.tag \in {"Del", "Backspace"} -> Pop(command)
                              [] k.tag = "Tab" -> command
                              [] k.tag = "Newline" -> <<>>
              /\ CASE k.tag = "Tab" ->
                        \E o \in complete(cli, command) :
                           op' = Op("complete", <<>>, command, Ok, o.ret, o.calls)
                   [] k.tag = "Newline" ->
                        op' = Op("exec", <<>>, command, Ok, <<>>, exec(cli, command))
                   [] OTHER -> op' = Idle
    /\ pc' = "panicked"
    /\ out' = <<>>
    /\ UNCHANGED <<cli, regs>>
    /\ UNCHANGED term

SessionNext ==
    \/ Start
    \/ StartPanic
    \/ ReadPanic
    \/ ReadNone
    \/ OnChar
    \/ OnWhitespace
    \/ OnErase
    \/ OnTab
    \/ OnNewline
    \/ OnEtx
    \/ OnOther
    \/ HandlerPanic
    \/ FlushPanic

SessionSpec == SessionInit /\ [][SessionNext]_vars

\* The session with its progress: unix_cline_run is one thread that runs
\* one statement after the other, read_key returns (or panics) on a finite
\* standard input, and every callback returns or panics; so whenever a step
\* of the session is possible, one is taken.
SessionFairSpec == SessionInit /\ [][SessionNext]_vars /\ WF_vars(SessionNext)

(* ------------------------- decoder on a reader ------------------------- *)

\* Every value of a byte (u8).
AllBytes == 0..255

\* The readers read_key is called on: empty; any byte; 0x1B and any byte;
\* 0x1B 0x5B and any byte; each of them as the whole stream or followed by
\* one more byte, 'a'.
Streams ==
    {<<>>}
    \cup {first \o rest :
            first \in {<<b>> : b \in AllBytes}
                      \cup {<<27, b>> : b \in AllBytes}
                      \cup {<<27, 91, b>> : b \in AllBytes},
            rest \in {<<>>, <<97>>}}

\* A reader is about to be handed to read_key.
DecoderInit ==
    /\ cli = Cli_new
    /\ regs = <<>>
    /\ op = Idle
    /\ pc = "read"
    /\ term = "orig"
    /\ command = <<>>
    /\ stream \in Streams
    /\ avail = Len(stream)
    /\ key = <<>>
    /\ out = <<>>
    /\ diag = <<>>

\* What a read_key call with result `r` leaves behind.
Taken(r) ==
    /\ key' = r.key
    /\ diag' = r.diag
    /\ avail' = avail - r.n
    /\ stream' = SubSeq(stream, r.n + 1, Len(stream))
    /\ UNCHANGED <<cli, regs, op, term, command, out>>

\* A variant of ReadKey that takes one byte from the reader whatever it read.
ReadKey_one_byte ==
    /\ pc = "read"
    /\ LET r == read_key(stream)
       IN  /\ ~r.panic
           /\ Taken([r EXCEPT !.n = IF stream = <<>> THEN 0 ELSE 1])
    /\ pc' = "returned"

\* read_key(&mut bytes) returns.
ReadKey ==
    /\ pc = "read"
    /\ LET r == read_key(stream)
       IN  /\ ~r.panic
           /\ Taken(r)
    /\ pc' = "returned"

\* read_key(&mut bytes) panics.
ReadKeyPanic ==
    /\ pc = "read"
    /\ LET r == read_key(stream)
       IN  /\ r.panic
           /\ Taken(r)
    /\ pc' = "panicked"

DecoderNext ==
    \/ ReadKey
    \/ ReadKeyPanic

DecoderSpec == DecoderInit /\ [][DecoderNext]_vars

(* ---------------------- reading the trie and the history --------------- *)

\* Whether the node at `path` exists below `self`.
RECURSIVE HasNode(_, _)
HasNode(self, path) ==
    \/ path = <<>>
    \/ /\ Head(path) \in DOMAIN self.commands
       /\ HasNode(self.commands[Head(path)], Tail(path))

\* The node at `path` below `self` (which must exist).
RECURSIVE NodeAt(_, _)
NodeAt(self, path) ==
    IF path = <<>> THEN self ELSE NodeAt(self.commands[Head(path)], Tail(path))

\* How many leading tokens of `toks` name nodes below `self`.
RECURSIVE MatchLen(_, _)
MatchLen(self, toks) ==
    IF toks # <<>> /\ Head(toks) \in DOMAIN self.commands
    THEN 1 + MatchLen(self.commands[Head(toks)], Tail(toks))
    ELSE 0

\* The path of the node at which a traversal with `toks` stops.
StopPath(self, toks) == SubSeq(toks, 1, MatchLen(self, toks))

\* The register calls made so far with path `p`, by their position in `regs`.
RegsOf(p) == {i \in 1..Len(regs) : regs[i].path = p}

Registered(p) == RegsOf(p) # {}

\* The most recent register call with path `p`.
LastReg(p) == regs[CHOOSE i \in RegsOf(p) : \A j \in RegsOf(p) : j <= i]

\* Whether `seq` lists every element of the set S exactly once.
IsOrderingOf(seq, S) ==
    /\ Len(seq) = Cardinality(S)
    /\ {seq[i] : i \in 1..Len(seq)} = S

\* The tokens of the input line of the last call.
OpTokens == SplitWhitespace(op.line)

(* ------------------------------- claims ------------------------------- *)

\* C1: for every non-empty path p that has been registered, a call of exec
\* with the tokens of p joined by single spaces invokes exactly one closure:
\* the exec closure of the most recent registration of p, once, with the
\* argument sequence p.  This holds after every sequence of calls, earlier
\* calls of exec with the same line included, so k calls are k invocations.
C1_ExecRegisteredPath ==
    \A p \in RegPaths \ {<<>>} :
        (op.kind = "exec" /\ op.line = Join(p) /\ Registered(p))
        => op.calls = <<Call(LastReg(p).id, "exec", p, <<>>)>>

\* C1 witness: a two-token path registered before and after its one-token
\* prefix was, and exec of its joined line invokes its latest exec closure.
C1_Witness ==
    /\ op.kind = "exec"
    /\ \E p \in RegPaths :
          /\ Len(p) = 2
          /\ Registered(p)
          /\ Registered(<<p[1]>>)
          /\ op.line = Join(p)
          /\ op.calls = <<Call(LastReg(p).id, "exec", p, <<>>)>>

\* C2: when the tokens of the input line are a path p that has a handler,
\* followed by one or more tokens of which the first is no child key of p's
\* node, exec invokes that handler's exec closure exactly once, with all the
\* tokens of the line (p included), and nothing else.
C2_ExecFullArgv ==
    op.kind = "exec" =>
        \A p \in RegPaths \ {<<>>} :
            ( /\ Len(OpTokens) > Len(p)
              /\ SubSeq(OpTokens, 1, Len(p)) = p
              /\ HasNode(cli, p)
              /\ NodeAt(cli, p).handler # <<>>
              /\ OpTokens[Len(p) + 1] \notin DOMAIN NodeAt(cli, p).commands )
            => op.calls = <<Call(NodeAt(cli, p).handler[1].id, "exec", OpTokens, <<>>)>>

\* C2 witness: a handler at a one-token path executed with two extra tokens.
C2_Witness ==
    /\ op.kind = "exec"
    /\ \E p \in RegPaths :
          /\ Len(p) = 1
          /\ Len(OpTokens) = 3
          /\ SubSeq(OpTokens, 1, 1) = p
          /\ HasNode(cli, p)
          /\ NodeAt(cli, p).handler # <<>>
          /\ OpTokens[2] \notin DOMAIN NodeAt(cli, p).commands
          /\ op.calls = <<Call(NodeAt(cli, p).handler[1].id, "exec", OpTokens, <<>>)>>

\* The last call was complete, its tokens were all matched, and the node they
\* lead to has a handler with a complete closure.
CompleteAtDynNode ==
    /\ op.kind = "complete"
    /\ HasNode(cli, OpTokens)
    /\ NodeAt(cli, OpTokens).handler # <<>>
    /\ NodeAt(cli, OpTokens).handler[1].complete

\* C3 as stated: complete with the tokens exhausted at a node whose handler
\* has a complete closure calls the closure once with [""] and returns
\* exactly what the closure returned, no child key added.
C3_Original ==
    CompleteAtDynNode =>
        /\ op.calls = <<Call(NodeAt(cli, OpTokens).handler[1].id, "complete",
                             << <<>> >>, op.calls[1].ret)>>
        /\ op.ret = op.calls[1].ret

\* C3 amended: complete with the tokens exhausted at a node whose handler has
\* a complete closure calls the closure once with [""] and returns what the
\* closure returned followed by every child key of the node, each once.
C3_DynThenChildren ==
    CompleteAtDynNode =>
        LET node == NodeAt(cli, OpTokens)
            n == Len(op.calls[1].ret)
        IN  /\ Len(op.calls) = 1
            /\ op.calls[1].cb = node.handler[1].id
            /\ op.calls[1].kind = "complete"
            /\ op.calls[1].args = << <<>> >>
            /\ Len(op.ret) >= n
            /\ SubSeq(op.ret, 1, n) = op.calls[1].ret
            /\ IsOrderingOf(SubSeq(op.ret, n + 1, Len(op.ret)), DOMAIN node.commands)

\* C3 witness: such a node with a child, the closure returning two
\* candidates: three candidates are returned.
C3_Witness ==
    /\ CompleteAtDynNode
    /\ Cardinality(DOMAIN NodeAt(cli, OpTokens).commands) = 1
    /\ Len(op.calls[1].ret) = 2
    /\ Len(op.ret) = 3

\* The last call was complete and stopped at a token that is no child key.
CompleteAtMismatch ==
    /\ op.kind = "complete"
    /\ MatchLen(cli, OpTokens) < Len(OpTokens)

\* C4: when complete stops at node N because the next token t is no child
\* key of N, the result is, in this order, what N's complete closure returned
\* (called exactly once with t and the tokens after it, when N's handler has
\* one; nothing is called otherwise) and then every child key of N that
\* starts with t, each once; so it is empty without closure and without such
\* a key.
C4_MismatchCandidates ==
    CompleteAtMismatch =>
        LET m == MatchLen(cli, OpTokens)
            node == NodeAt(cli, StopPath(cli, OpTokens))
            t == OpTokens[m + 1]
            keys == {c \in DOMAIN node.commands :
                        Len(t) <= Len(c) /\ \A i \in 1..Len(t) : c[i] = t[i]}
            dyn == node.handler # <<>> /\ node.handler[1].complete
            n == IF dyn THEN Len(op.calls[1].ret) ELSE 0
        IN  /\ IF dyn
               THEN /\ Len(op.calls) = 1
                    /\ op.calls[1].cb = node.handler[1].id
                    /\ op.calls[1].kind = "complete"
                    /\ op.calls[1].args = SubSeq(OpTokens, m + 1, Len(OpTokens))
                    /\ SubSeq(op.ret, 1, n) = op.calls[1].ret
               ELSE op.calls = <<>>
            /\ Len(op.ret) >= n
            /\ IsOrderingOf(SubSeq(op.ret, n + 1, Len(op.ret)), keys)

\* C4 witness: the closure of the node "a" is called with two tokens and
\* returns two candidates, and a child key of the node starts with the first
\* token.
C4_Witness ==
    /\ CompleteAtMismatch
    /\ MatchLen(cli, OpTokens) = 1
    /\ Len(op.calls) = 1
    /\ Len(op.calls[1].args) = 2
    /\ Len(op.calls[1].ret) = 2
    /\ Len(op.ret) = 3

\* The last call was complete, its tokens were all matched, and the node they
\* lead to has no handler or a handler without complete closure.
CompleteAtPlainNode ==
    /\ op.kind = "complete"
    /\ HasNode(cli, OpTokens)
    /\ \/ NodeAt(cli, OpTokens).handler = <<>>
       \/ ~NodeAt(cli, OpTokens).handler[1].complete

\* C5: complete with the tokens exhausted at a node N without complete
\* closure calls nothing and returns the child keys of N, each once, in some
\* order; for a node without children that is the empty vector.
C5_ChildKeys ==
    CompleteAtPlainNode =>
        /\ op.calls = <<>>
        /\ IsOrderingOf(op.ret, DOMAIN NodeAt(cli, OpTokens).commands)

\* C5 witness: a node below the root, with two children, completed from a
\* line with whitespace around the token: both child keys are returned.
C5_Witness ==
    /\ CompleteAtPlainNode
    /\ Len(OpTokens) = 1
    /\ Len(op.line) > Len(OpTokens[1])
    /\ Len(op.ret) = 2

\* The last call was register or register_dyn_complete.
IsRegisterOp == op.kind \in {"register", "register_dyn_complete"}

\* C6: register and register_dyn_complete answer Err exactly when the path
\* is empty, and Ok for every non-empty path, whatever the trie holds.
C6_RegisterResult ==
    IsRegisterOp =>
        /\ op.res \in {Ok, Err}
        /\ (op.res = Err) <=> (op.path = <<>>)

\* C6 witness: register_dyn_complete with the empty path answers Err on a
\* trie that already holds a command.
C6_Witness ==
    /\ op.kind = "register_dyn_complete"
    /\ op.path = <<>>
    /\ op.res = Err
    /\ Len(regs) = 2
    /\ regs[1].path # <<>>

\* No registered non-empty path is a prefix of the tokens of the line.
MatchesNoCommand(toks) ==
    \A p \in RegPaths \ {<<>>} :
        Registered(p) => ~(Len(p) <= Len(toks) /\ SubSeq(toks, 1, Len(p)) = p)

\* C7 as stated: once a registration with the empty path has failed, every
\* exec of a line that matches no registered command invokes the handler of
\* that registration.
C7_Original ==
    (op.kind = "exec" /\ Registered(<<>>) /\ MatchesNoCommand(OpTokens))
    => op.calls = <<Call(LastReg(<<>>).id, "exec", OpTokens, <<>>)>>

\* C7 amended: the command of the most recent registration with the empty
\* path is the handler of the root node; exec invokes it, once and with all
\* the tokens of the line, exactly when the traversal stops at the root (the
\* line has no token, or its first token is no child key of the root), and
\* does not invoke it when the first token is a child key of the root.
C7_RootHandler ==
    Registered(<<>>) =>
        /\ cli.handler = <<Command_new(LastReg(<<>>).id, <<>>, LastReg(<<>>).complete)>>
        /\ op.kind = "exec" =>
              IF OpTokens = <<>> \/ OpTokens[1] \notin DOMAIN cli.commands
              THEN op.calls = <<Call(LastReg(<<>>).id, "exec", OpTokens, <<>>)>>
              ELSE \A i \in 1..Len(op.calls) : op.calls[i].cb # LastReg(<<>>).id

\* C7 witness: the root handler invoked for a line of two tokens whose first
\* is no child key of the root, on a trie that holds a command.
C7_Witness ==
    /\ op.kind = "exec"
    /\ Registered(<<>>)
    /\ cli.commands # <<>>
    /\ Len(OpTokens) = 2
    /\ op.calls = <<Call(LastReg(<<>>).id, "exec", OpTokens, <<>>)>>

\* C8: when the traversal of exec stops at a node without handler, no
\* closure is invoked and the call returns normally, whatever handlers the
\* ancestors of the node have.
C8_NoHandlerNoCall ==
    (op.kind = "exec" /\ NodeAt(cli, StopPath(cli, OpTokens)).handler = <<>>)
    => (op.calls = <<>> /\ op.res = Ok)

\* C8 witness: a traversal stops, with a token left, at a node without
\* handler below a root that has one.
C8_Witness ==
    /\ op.kind = "exec"
    /\ cli.handler # <<>>
    /\ MatchLen(cli, OpTokens) = 1
    /\ Len(OpTokens) = 2
    /\ NodeAt(cli, StopPath(cli, OpTokens)).handler = <<>>
    /\ op.calls = <<>>

\* C9: a non-empty path registered more than once has, at its node, the
\* command of the most recent registration and no other; exec of the path
\* invokes only that command's exec closure, and complete of the path calls
\* that command's complete closure when it has one and no closure otherwise.
C9_LastWriteWins ==
    \A p \in RegPaths \ {<<>>} :
        Cardinality(RegsOf(p)) >= 2 =>
            /\ HasNode(cli, p)
            /\ NodeAt(cli, p).handler = <<Command_new(LastReg(p).id, p, LastReg(p).complete)>>
            /\ (op.kind = "exec" /\ OpTokens = p)
               => op.calls = <<Call(LastReg(p).id, "exec", p, <<>>)>>
            /\ (op.kind = "complete" /\ OpTokens = p)
               => IF LastReg(p).complete
                  THEN /\ Len(op.calls) = 1
                       /\ op.calls[1].cb = LastReg(p).id
                       /\ op.calls[1].kind = "complete"
                  ELSE op.calls = <<>>

\* C9 witness: a path registered first with and then without complete
\* closure; complete of the path calls no closure.
C9_Witness ==
    /\ op.kind = "complete"
    /\ Len(regs) = 2
    /\ regs[1].path = regs[2].path
    /\ regs[1].path # <<>>
    /\ regs[1].complete
    /\ ~regs[2].complete
    /\ OpTokens = regs[1].path
    /\ op.calls = <<>>

\* A loop iteration of the session in which read_key returned a key and the
\* arm of the key ran to its end.
KeyStep == pc = "loop" /\ avail' < avail /\ key' # <<>> /\ pc' # "panicked"

\* The character a Char, Symbol or Digit key stands for.
Typed(k) == IF k.tag = "Digit" THEN k.v + 48 ELSE k.v

\* C10 as stated: every Char, Symbol and Digit key appends the typed
\* character to the line buffer, and the session keeps running.
C10_Original ==
    [][(KeyStep /\ key'[1].tag \in {"Char", "Symbol", "Digit"})
       => (command' = Append(command, Typed(key'[1])) /\ pc' = "loop")]_vars

\* C10 amended: a Char key appends exactly its character to the end of the
\* line buffer, and a Newline key passes the buffer to exec; a Symbol or a
\* Digit key leaves the buffer as it is, so the buffer only ever holds
\* letters and spaces; after each of the three keys the session keeps running
\* and no trie call has been made.
C10_CharAppends ==
    [][KeyStep =>
        /\ key'[1].tag = "Char" =>
              /\ command' = Append(command, key'[1].v)
              /\ pc' = "loop" /\ op' = Idle
        /\ key'[1].tag \in {"Symbol", "Digit"} =>
              /\ command' = command
              /\ pc' = "loop" /\ op' = Idle
        /\ key'[1].tag = "Newline" =>
              /\ op'.kind = "exec" /\ op'.line = command
        /\ \A i \in 1..Len(command') :
              \/ command'[i] = 32
              \/ (command'[i] >= 65 /\ command'[i] <= 90)
              \/ (command'[i] >= 97 /\ command'[i] <= 122)]_vars

\* C10 witness: after 'a' and 'b' the key '1' was read: the session runs
\* on with the line buffer still "ab", having printed only the diagnostic.
C10_Witness ==
    /\ pc = "loop"
    /\ key = <<Key("Digit", 1, "")>>
    /\ command = <<97, 98>>
    /\ diag = <<"unhandled">>
    /\ op = Idle

\* C11: every loop iteration that handles a Newline key makes one call of
\* cli.exec, with the line buffer as it is when the key arrives, and ends
\* with an empty line buffer and the session running; a step that calls
\* cli.exec is the step of a Newline key; and the line buffer is empty when
\* the session starts, so that each exec gets what was typed, and not
\* erased, since the Newline before it.
C11_NewlineExecs ==
    [][/\ (KeyStep /\ key'[1].tag = "Newline") =>
             /\ op' = Op("exec", <<>>, command, Ok, <<>>, exec(cli, command))
             /\ command' = <<>>
             /\ pc' = "loop"
       /\ (pc = "loop" /\ op'.kind = "exec") =>
             /\ key' # <<>>
             /\ key'[1].tag = "Newline"
             /\ op'.line = command
       /\ pc = "start" => command = <<>>]_vars

\* C11 witness: 'a' was typed, then Newline: exec was called with "a", ran
\* a handler with the argument "a", and the line buffer is empty.
C11_Witness ==
    /\ pc = "loop"
    /\ key = <<Key("Newline", 0, "")>>
    /\ op.kind = "exec"
    /\ op.line = <<97>>
    /\ Len(op.calls) = 1
    /\ op.calls[1].args = << <<97>> >>
    /\ command = <<>>

\* C12: whenever unix_cline_run has ended, by leaving its loop or by a
\* panic, the terminal has the configuration captured at the start of the
\* session.
C12_TerminalRestored == pc \in {"done", "panicked"} => term = "orig"

\* C12 witness: 'a' was typed, then standard input ended inside an escape
\* sequence; read_key panicked and the session is over with the terminal
\* still in raw mode.
C12_Witness ==
    /\ pc = "panicked"
    /\ term = "raw"
    /\ command = <<97>>
    /\ key = <<>>
    /\ avail = 0
    /\ op = Idle

\* The key the byte table gives for a first byte other than 0x1B.
ByteTable(b) ==
    CASE b = 3 -> Key("Etx", 0, "")
      [] b = 8 -> Key("Backspace", 0, "")
      [] b = 9 -> Key("Tab", 0, "")
      [] b = 10 -> Key("Newline", 0, "")
      [] b = 32 -> Key("Whitespace", 0, "")
      [] b \in 48..57 -> Key("Digit", b - 48, "")
      [] b \in (65..90) \cup (97..122) -> Key("Char", b, "")
      [] b = 127 -> Key("Del", 0, "")
      [] OTHER -> Key("Symbol", b, "")

\* The direction the last byte of an arrow sequence stands for.
ArrowOf(b) ==
    CASE b = 65 -> "Up" [] b = 66 -> "Down" [] b = 67 -> "Right" [] b = 68 -> "Left"

\* C13: a read_key call on a reader whose first byte is b, any byte but
\* 0x1B, returns the key of the byte table for b and takes exactly that
\* byte from the reader, a Digit carrying a value in 0..9; a call on a
\* reader that starts with 0x1B 0x5B and one of 0x41..0x44 returns the Arrow
\* of that byte and takes exactly the three bytes.
C13_ByteTable ==
    [][(pc = "read" /\ stream # <<>>) =>
          /\ stream[1] # 27 =>
                /\ pc' = "returned"
                /\ key' = <<ByteTable(stream[1])>>
                /\ stream' = Tail(stream)
                /\ avail' = avail - 1
                /\ key'[1].tag = "Digit" => key'[1].v \in 0..9
          /\ (/\ Len(stream) >= 3
              /\ stream[1] = 27
              /\ stream[2] = 91
              /\ stream[3] \in 65..68) =>
                /\ pc' = "returned"
                /\ key' = <<Key("Arrow", 0, ArrowOf(stream[3]))>>
                /\ stream' = SubSeq(stream, 4, Len(stream))
                /\ avail' = avail - 3]_vars

\* C13 witness: read_key has returned Arrow Left from the reader
\* 0x1B 0x5B 0x44 'a', of which 'a' is left.
C13_Witness ==
    /\ pc = "returned"
    /\ key = <<Key("Arrow", 0, "Left")>>
    /\ stream = <<97>>
    /\ avail = 1

\* The closures a sequence of calls invoked, in order.
Invoked(calls) == [i \in 1..Len(calls) |-> [cb |-> calls[i].cb, kind |-> calls[i].kind]]

\* What can follow the first token that matches no child: nothing, "a",
\* "ab" and "a".
Tails == {<<>>, << <<97>> >>, << <<97, 98>>, <<97>> >>}

\* C14: exec invokes the exec closure of the handler of the node at the
\* longest prefix of the line's tokens that is a path of nodes from the
\* root, exactly once, if that node has a handler, and no other closure;
\* and a line whose tokens are the same up to and including the first token
\* that matches no child, whatever follows that token, invokes the same
\* closure.
C14_LongestMatch ==
    op.kind = "exec" =>
        LET n == MatchLen(cli, OpTokens)
            node == NodeAt(cli, SubSeq(OpTokens, 1, n))
        IN  /\ \A k \in (n + 1)..Len(OpTokens) :
                  ~HasNode(cli, SubSeq(OpTokens, 1, k))
            /\ op.calls = IF node.handler = <<>> THEN <<>>
                          ELSE <<Call(node.handler[1].id, "exec", OpTokens, <<>>)>>
            /\ Len(OpTokens) > n =>
                  \A rest \in Tails :
                     Invoked(exec(cli, Join(SubSeq(OpTokens, 1, n + 1) \o rest)))
                        = Invoked(op.calls)

\* C14 witness: with handlers at "a" and at "a ab", the line "a ab a" ran
\* the handler registered at "a ab".
C14_Witness ==
    /\ op.kind = "exec"
    /\ OpTokens = << <<97>>, <<97, 98>>, <<97>> >>
    /\ Registered(<< <<97>> >>)
    /\ Registered(<< <<97>>, <<97, 98>> >>)
    /\ Len(op.calls) = 1
    /\ op.calls[1].cb = LastReg(<< <<97>>, <<97, 98>> >>).id

\* Every path a node of the trie can have: up to two tokens.
NodePaths ==
    {<<>>} \cup {<<t>> : t \in RegTokens} \cup {<<t, u>> : t, u \in RegTokens}

\* The paths of the nodes of `self`.
Nodes(self) == {q \in NodePaths : HasNode(self, q)}

\* The prefixes of the path p, p itself and the empty path included.
Prefixes(p) == {SubSeq(p, 1, k) : k \in 0..Len(p)}

\* C15: a register call that answers Ok, with a path p of one or more
\* tokens, leaves a trie whose nodes are the nodes of before and the
\* prefixes of p; the node at p has the new command as its handler; every
\* node of before other than the node at p has the handler it had, every
\* node of before has at least the children it had, and a node the call
\* created on the way to p has no handler; and every node with a handler,
\* at a prefix path or below it, has its exec closure run by exec with the
\* tokens of its path.
C15_RegisterFrame ==
    [][(IsRegisterOp' /\ op'.res = Ok /\ op = Idle /\ pc = "api") =>
          LET p == op'.path
              id == regs'[Len(regs')].id
          IN  /\ Len(p) >= 1
              /\ Nodes(cli') = Nodes(cli) \cup Prefixes(p)
              /\ NodeAt(cli', p).handler # <<>>
              /\ NodeAt(cli', p).handler[1].id = id
              /\ \A q \in Nodes(cli) :
                    /\ q # p => NodeAt(cli', q).handler = NodeAt(cli, q).handler
                    /\ DOMAIN NodeAt(cli, q).commands
                          \subseteq DOMAIN NodeAt(cli', q).commands
              /\ \A q \in Prefixes(p) \ (Nodes(cli) \cup {p}) :
                    NodeAt(cli', q).handler = <<>>
              /\ \A q \in Nodes(cli') \ {<<>>} :
                    NodeAt(cli', q).handler # <<>> =>
                       Invoked(exec(cli', Join(q)))
                          = <<[cb |-> NodeAt(cli', q).handler[1].id, kind |-> "exec"]>>]_vars

\* C15 witness: "a ab" was registered, then "a": the node at "a" has the
\* second command as its handler and its child "ab" still has the first.
C15_Witness ==
    /\ IsRegisterOp
    /\ op.res = Ok
    /\ op.path = << <<97>> >>
    /\ Len(regs) = 2
    /\ regs[1].path = << <<97>>, <<97, 98>> >>
    /\ NodeAt(cli, << <<97>> >>).handler[1].id = 2
    /\ NodeAt(cli, << <<97>>, <<97, 98>> >>).handler[1].id = 1
    /\ cli.handler = <<>>

\* Whether the reader `s` starts with one of the four arrow sequences.
StartsWithArrow(s) == Len(s) >= 3 /\ s[1] = 27 /\ s[2] = 91 /\ s[3] \in 65..68

\* C16: a read_key call on a reader that starts with 0x1B and not with one
\* of the four arrow sequences returns, and returns None, also when the
\* reader ends after 0x1B or after 0x1B 0x5B.
C16_EscapeReturnsNone ==
    [][(pc = "read" /\ stream # <<>> /\ stream[1] = 27 /\ ~StartsWithArrow(stream))
       => (pc' = "returned" /\ key' = <<>>)]_vars

\* C16 witness: read_key was called on a reader that ended inside an escape
\* sequence, and panicked.
C16_Witness ==
    /\ pc = "panicked"
    /\ stream = <<>>
    /\ avail = 0
    /\ key = <<>>

\* The tokens `toks` with the whitespace `gap` between each two of them.
RECURSIVE JoinWith(_, _)
JoinWith(toks, gap) ==
    IF toks = <<>> THEN <<>>
    ELSE IF Len(toks) = 1 THEN toks[1]
    ELSE Head(toks) \o gap \o JoinWith(Tail(toks), gap)

\* The line that has the tokens `toks` with as much whitespace as can be: a
\* tab in front, two spaces between the tokens, a space and a newline at
\* the end.  Two lines with the same tokens both have it as their
\* counterpart.
Respaced(toks) == {<<9>> \o JoinWith(toks, <<32, 32>>) \o <<32, 10>>}

C18_EraseLast ==
    [][(KeyStep /\ key'[1].tag \in {"Backspace", "Del"}) =>
          /\ command # <<>> => command' \o <<command[Len(command)]>> = command
          /\ command = <<>> => command' = <<>>
          /\ out' = <<8, 32, 8>>
          /\ op' = Idle
          /\ cli' = cli
          /\ pc' = "loop"
          /\ term' = "raw"]_vars

\* C18 witness: after a Del key the line buffer is "a", what is left of
\* two characters typed, and the erase sequence was printed.
C18_Witness ==
    /\ pc = "loop"
    /\ key = <<Key("Del", 0, "")>>
    /\ command = <<97>>
    /\ out = <<8, 32, 8>>
    /\ op = Idle

\* C19: a loop iteration that handles a Tab key makes one call of
\* cli.complete, with the line buffer as it is when the key arrives, and
\* leaves the line buffer and the trie as they are, the session running; it
\* prints the suggestions the call returned, then the prompt and the line
\* buffer.  No step of a Tab key, a step cut short by a panic included,
\* calls exec or changes the trie.
C19_TabCompletes ==
    [][/\ (KeyStep /\ key'[1].tag = "Tab") =>
             /\ op'.kind = "complete"
             /\ op'.line = command
             /\ [ret |-> op'.ret, calls |-> op'.calls] \in complete(cli, command)
             /\ out' = <<10>> \o Suggestions(op'.ret) \o <<10>> \o Prompt \o command
             /\ command' = command
             /\ pc' = "loop"
       /\ (pc = "loop" /\ key' # <<>> /\ key'[1].tag = "Tab") =>
             /\ op'.kind = "complete"
             /\ cli' = cli
             /\ regs' = regs]_vars

\* C19 witness: with the commands "a" and "a ab" registered, 'a' was typed,
\* then Tab: complete was called with "a" and returned "ab", and the line
\* buffer is still "a".
C19_Witness ==
    /\ pc = "loop"
    /\ key = <<Key("Tab", 0, "")>>
    /\ op.kind = "complete"
    /\ op.line = <<97>>
    /\ op.ret = << <<97, 98>> >>
    /\ command = <<97>>
    /\ out = <<10, 97, 98, 32, 10, 62, 62, 32, 97>>

\* C20: a loop iteration in which read_key returns Etx, or returns None,
\* ends the loop without a trie call and with the line buffer as it was:
\* unix_cline_run returns; and once it has returned nothing happens any
\* more: no byte is taken from standard input, no complete or exec call is
\* made, and the line buffer, whatever it holds, is not executed.
C20_StopsForGood ==
    [][/\ (/\ pc = "loop"
           /\ pc' # "panicked"
           /\ \/ key' = <<>>
              \/ key'[1].tag = "Etx") =>
             /\ pc' = "done"
             /\ op' = Idle
             /\ command' = command
             /\ cli' = cli
       /\ pc = "done" =>
             /\ pc' = "done"
             /\ avail' = avail
             /\ op' = op
             /\ command' = command]_vars

\* C20 witness: the session has ended on an Etx key with "a" in the line
\* buffer and bytes left on standard input; no trie call was made.
C20_Witness ==
    /\ pc = "done"
    /\ key = <<Key("Etx", 0, "")>>
    /\ command = <<97>>
    /\ avail >= 1
    /\ op = Idle
    /\ term = "orig"

\* C21: every loop iteration takes at least one byte from standard input or
\* leaves the loop; an iteration that finds standard input at its end
\* leaves the loop; and every session comes to an end, unix_cline_run
\* returning or unwinding.
C21_Terminates ==
    /\ [][pc = "loop" =>
            /\ avail' < avail \/ pc' # "loop"
            /\ avail = 0 => pc' = "done"]_vars
    /\ <>(pc \in {"done", "panicked"})

\* C21 witness: 'a' and 'b' were typed, then standard input was at its end:
\* read_key returned None and unix_cline_run has returned.
C21_Witness ==
    /\ pc = "done"
    /\ avail = 0
    /\ key = <<>>
    /\ command = <<97, 98>>
    /\ term = "orig"

\* C22: a complete call and an exec call leave the trie as it is: the same
\* nodes, each with the child keys and the handler it had; and a step that
\* changes the trie is a register or register_dyn_complete call.
C22_ReadOnlyCalls ==
    [][/\ (pc = "api" /\ op'.kind \in {"complete", "exec"}) =>
             /\ Nodes(cli') = Nodes(cli)
             /\ \A q \in Nodes(cli) :
                   /\ DOMAIN NodeAt(cli', q).commands = DOMAIN NodeAt(cli, q).commands
                   /\ NodeAt(cli', q).handler = NodeAt(cli, q).handler
             /\ cli' = cli
       /\ cli' # cli => IsRegisterOp']_vars

\* C22 witness: after two register calls an exec call has run a handler,
\* and the trie is the one the two register calls built: three nodes.
C22_Witness ==
    /\ op.kind = "exec"
    /\ op.calls # <<>>
    /\ Len(regs) = 2
    /\ Cardinality(Nodes(cli)) = 3
    /\ cli = Setup(regs).cli

\* C23: whatever call is made (register, register_dyn_complete, also with
\* the empty path, complete or exec), every node of before is a node after
\* it, has at least the child keys it had, and has a handler if it had one.
C23_TrieGrowsOnly ==
    [][/\ Nodes(cli) \subseteq Nodes(cli')
       /\ \A q \in Nodes(cli) :
             /\ DOMAIN NodeAt(cli, q).commands \subseteq DOMAIN NodeAt(cli', q).commands
             /\ NodeAt(cli, q).handler # <<>> => NodeAt(cli', q).handler # <<>>]_vars

\* C23 witness: "a ab" was registered, then the empty path, which failed:
\* the root has a handler and the three nodes are there, the one at "a ab"
\* with its handler.
C23_Witness ==
    /\ IsRegisterOp
    /\ op.res = Err
    /\ Len(regs) = 2
    /\ regs[1].path = << <<97>>, <<97, 98>> >>
    /\ cli.handler # <<>>
    /\ Cardinality(Nodes(cli)) = 3
    /\ NodeAt(cli, << <<97>>, <<97, 98>> >>).handler # <<>>

====
